---- MODULE Spec2Model ----
(***************************************************************************)
(* Model of the laundry REST API (rooms, machines, users, fault reports).  *)
(*                                                                         *)
(* The state is the four database tables the handlers read and write, the  *)
(* two id sequences behind the generated keys, and one record per client   *)
(* connection: the request being served, the handler's position between    *)
(* its storage calls (each `.await` on the pool lets other requests run),  *)
(* and the response it produced.                                           *)
(***************************************************************************)
EXTENDS Integers, FiniteSets, TLC

VARIABLES room, machine, user, report,   \* the tables (sets of rows)
          room_seq, report_seq,          \* last value of the id sequences
          pc, req, resp,                 \* per connection: position, request, response
          prev,                          \* the last request answered, when it was a successful delete
          failed,                        \* per connection: a storage call of the request returned Err
          workload                       \* which connections and handlers this run exercises

db   == <<room, machine, user, report, room_seq, report_seq>>
vars == <<room, machine, user, report, room_seq, report_seq, pc, req, resp, prev, failed, workload>>

----------------------------------------------------------------------------
(* Bounds of the model *)

MaxRooms   == 2      \* room ids the sequence hands out, and room ids clients ask for
MaxReports == 2      \* report ids the sequence hands out, and report ids clients ask for

Procs == {1, 2}      \* client connections

----------------------------------------------------------------------------
(* Values of the data model (models.rs) *)

MachineType == {"Washer", "Dryer"}
ReportType  == {"Operational", "Caution", "Broken"}

None == "<none>"     \* Option::None of an optional description

RoomIds    == 1..MaxRooms
ReportIds  == 1..MaxReports
MachineIds == {"A", "B"}
Usernames  == {"admin", "bob"}
Times      == {"now"}       \* what OffsetDateTime::now_utc() reads

Room(room_id, name, description) ==
    [room_id |-> room_id, name |-> name, description |-> description]

Machine(machine_id, room_id, machine_type) ==
    [machine_id |-> machine_id, room_id |-> room_id, machine_type |-> machine_type]

User(username, admin) ==
    [username |-> username, admin |-> admin]

Report(report_id, room_id, machine_id, reporter_username, report_type, time, description, archived) ==
    [report_id |-> report_id, room_id |-> room_id, machine_id |-> machine_id,
     reporter_username |-> reporter_username, report_type |-> report_type,
     time |-> time, description |-> description, archived |-> archived]

(* Request bodies the clients send *)

RoomSubmission ==
    { [name |-> "Room 1", description |-> "Room 1 in Complex A"],
      [name |-> "Room 2", description |-> None] }

MachineSubmission ==
    [room_id : RoomIds, machine_id : MachineIds, machine_type : MachineType]

UserSubmission ==
    [username : Usernames, admin : BOOLEAN]

ReportSubmission ==
    { [machine_id |-> "A", room_id |-> 1, reporter_username |-> "admin",
       report_type |-> "Broken", description |-> "No heat"],
      [machine_id |-> "A", room_id |-> 2, reporter_username |-> "bob",
       report_type |-> "Caution", description |-> None],
      [machine_id |-> "B", room_id |-> 1, reporter_username |-> "bob",
       report_type |-> "Operational", description |-> None] }

ArchiveSubmission == [report_id : ReportIds]

----------------------------------------------------------------------------
(* HTTP responses: status, JSON body (one row, an array of rows, or a string) *)

Response(status, kind, rows, msg) ==
    [status |-> status, kind |-> kind, rows |-> rows, msg |-> msg]

Ok(row)                  == Response(200, "object", {row}, "")
OkList(rows)             == Response(200, "array", rows, "")
Created(row)             == Response(201, "object", {row}, "")
BadRequest(msg)          == Response(400, "string", {}, msg)
NotFound(msg)            == Response(404, "string", {}, msg)
Conflict(msg)            == Response(409, "string", {}, msg)
InternalServerError(err) == Response(500, "string", {}, err)

NoResponse == Response(0, "none", {}, "")
NoRequest  == [op |-> "none"]
NoDelete   == [op |-> "none"]

(* sqlx errors, by what err.to_string() tells apart *)
IoError       == "io"              \* connection loss, timeout, any non-Database variant
DatabaseError == "database"        \* sqlx::Error::Database: the server rejected the statement
RowNotFound   == "row not found"   \* sqlx::Error::RowNotFound from fetch_one on no row

(* What one storage call can come to.  Every call can lose its connection:
   before the statement reaches the server (IoError: nothing ran), or after the
   server ran it, the reply being lost (ReplyLost: the statement took effect,
   the caller gets sqlx::Error::Io all the same).  Every statement, a SELECT
   as well as an INSERT, UPDATE or DELETE, can also be rejected by the server
   (DatabaseError: nothing ran). *)
ReplyLost      == "reply lost"
Errors         == {IoError, DatabaseError, RowNotFound}
Outcomes       == {"ok", IoError, ReplyLost, DatabaseError}
InsertOutcomes == Outcomes

(* the Err(err) the handler gets for an outcome that is not Ok *)
err(out) == IF out = ReplyLost THEN IoError ELSE out

(* fetch_optional / fetch_one hand back the first row of the result *)
First(rows) == CHOOSE r \in rows : TRUE

----------------------------------------------------------------------------
(* The schema behind the queries.  Generated keys come from a sequence per
   table; machine has the primary key (room_id, id) and "user" the primary key
   username; report.reporter_username references "user"(username), a delete of
   a referenced user being refused; report.archived defaults to false.
   machine and report rows hold no reference to their room or machine:
   deleting those leaves them behind. *)
nextval(seq) == seq + 1

archived_default == FALSE      \* report.archived when the INSERT names no value

(* mutant: machine has no primary key *)
machine_key_taken_never(machines, row) == FALSE

machine_key_taken(machines, row) ==
    \E m \in machines : m.room_id = row.room_id /\ m.machine_id = row.machine_id

user_key_taken(users, row) ==
    \E u \in users : u.username = row.username

reporter_key_missing(users, row) ==
    ~\E u \in users : u.username = row.reporter_username

user_key_referenced(reports, rows) ==
    \E r \in reports, u \in rows : r.reporter_username = u.username

----------------------------------------------------------------------------
(* Existence validators: SELECT <key> ... WHERE <key> = $1, result.is_some() *)

is_room_present(rooms, room_id) ==
    \E r \in rooms : r.room_id = room_id

(* mutant: the lookup forgets the room *)
is_machine_present_in_any_room(machines, room_id, machine_id) ==
    \E m \in machines : m.machine_id = machine_id

is_machine_present(machines, room_id, machine_id) ==
    \E m \in machines : m.room_id = room_id /\ m.machine_id = machine_id

(* mutant: WHERE username = $1 AND admin *)
is_username_present_among_admins(users, username) ==
    \E u \in users : u.username = username /\ u.admin

is_username_present(users, username) ==
    \E u \in users : u.username = username

(* mutant: is_none() for is_some() *)
is_report_absent(reports, report_id) ==
    ~\E r \in reports : r.report_id = report_id

is_report_present(reports, report_id) ==
    \E r \in reports : r.report_id = report_id

----------------------------------------------------------------------------
(* The SQL statements of the handlers, as functions of the tables *)

(* room.rs *)
get_all_rooms_sql(rooms) == rooms

(* mutant: the WHERE clause is missing *)
get_room_sql_every_room(rooms, room_id) == rooms

get_room_sql(rooms, room_id) == {r \in rooms : r.room_id = room_id}

add_room_sql(seq, submission) ==
    Room(nextval(seq), submission.name, submission.description)

delete_room_sql(rooms, room_id) == {r \in rooms : r.room_id = room_id}

get_room_machines_sql(machines, room_id) ==
    {m \in machines : m.room_id = room_id}

get_room_reports_sql(reports, room_id) ==
    {r \in reports : r.room_id = room_id /\ r.archived = FALSE}

get_room_archived_reports_sql(reports, room_id) ==
    {r \in reports : r.room_id = room_id /\ r.archived = FALSE}

(* machine.rs *)
get_all_machines_sql(machines) == machines

get_machine_sql(machines, room_id, machine_id) ==
    {m \in machines : m.room_id = room_id /\ m.machine_id = machine_id}

add_machine_sql(submission) ==
    Machine(submission.machine_id, submission.room_id, submission.machine_type)

(* mutant: the WHERE clause forgets the machine id *)
delete_machine_sql_whole_room(machines, room_id, machine_id) ==
    {m \in machines : m.room_id = room_id}

delete_machine_sql(machines, room_id, machine_id) ==
    {m \in machines : m.room_id = room_id /\ m.machine_id = machine_id}

get_machine_reports_sql(reports, room_id, machine_id) ==
    {r \in reports : r.room_id = room_id /\ r.machine_id = machine_id /\ r.archived = FALSE}

get_machine_archived_reports_sql(reports, room_id, machine_id) ==
    {r \in reports : r.room_id = room_id /\ r.machine_id = machine_id /\ r.archived = TRUE}

(* user.rs *)
get_all_users_sql(users) == users

get_user_sql(users, username) == {u \in users : u.username = username}

add_user_sql(submission) == User(submission.username, submission.admin)

delete_user_sql(users, username) == {u \in users : u.username = username}

get_user_reports_sql(reports, username) ==
    {r \in reports : r.reporter_username = username /\ r.archived = FALSE}

(* mutant: the WHERE clause names the flag only *)
get_user_archived_reports_sql_of_every_user(reports, username) ==
    {r \in reports : r.archived = TRUE}

get_user_archived_reports_sql(reports, username) ==
    {r \in reports : r.reporter_username = username /\ r.archived = TRUE}

(* report.rs *)
get_all_reports_sql(reports) == {r \in reports : r.archived = FALSE}

get_all_archived_reports_sql(reports) == {r \in reports : r.archived = TRUE}

get_report_sql(reports, report_id) == {r \in reports : r.report_id = report_id}

(* mutant: the description is not bound, the column stays NULL *)
submit_report_sql_no_description(seq, submission, current_time) ==
    Report(nextval(seq), submission.room_id, submission.machine_id,
           submission.reporter_username, submission.report_type,
           current_time, None, archived_default)

(* the INSERT names no archived column: the row takes the column's default *)
submit_report_sql(seq, submission, current_time) ==
    Report(nextval(seq), submission.room_id, submission.machine_id,
           submission.reporter_username, submission.report_type,
           current_time, submission.description, archived_default)

delete_report_sql(reports, report_id) == {r \in reports : r.report_id = report_id}

(* mutant: the SET clause is missing *)
archive_report_sql_sets_nothing(reports, report_id) ==
    {x \in reports : x.report_id = report_id}

(* mutant: SET archived = NOT archived *)
archive_report_sql_toggles(reports, report_id) ==
    {[r EXCEPT !.archived = ~r.archived] : r \in {x \in reports : x.report_id = report_id}}

(* mutant: the WHERE clause is missing *)
archive_report_sql_every_report(reports, report_id) ==
    {[r EXCEPT !.archived = TRUE] : r \in reports}

(* mutant: WHERE id = $1 AND archived = false *)
archive_report_sql_unarchived_only(reports, report_id) ==
    {[r EXCEPT !.archived = TRUE] :
         r \in {x \in reports : x.report_id = report_id /\ x.archived = FALSE}}

(* UPDATE report SET archived = true WHERE id = $1 RETURNING ...: the rows as updated *)
archive_report_sql(reports, report_id) ==
    {[r EXCEPT !.archived = TRUE] : r \in {x \in reports : x.report_id = report_id}}

----------------------------------------------------------------------------
(* A connection takes a request when it is idle; a handler step either answers
   (Respond) or suspends until its next storage call (Await). *)

DeleteOps == {"delete_room", "delete_machine", "delete_user", "delete_report"}

(* main.rs: the services main registers on the App, by scope *)
App ==
    [machine |-> {"get_all_machines", "get_machine"},
     room    |-> {"get_all_rooms", "get_room"},
     user    |-> {"get_all_users", "get_user"},
     report  |-> {"get_all_reports", "get_report", "submit_report", "delete_report"}]

Routed == UNION {App[scope] : scope \in DOMAIN App}

(* a request reaches handler op: called as a function, or, in a run served by
   the application, when main registered it *)
Accept(p, op) ==
    /\ pc[p] = "idle"
    /\ p \in workload.procs
    /\ op \in workload.ops
    /\ workload.app => op \in Routed

(* the handler returns a response; an error's text is its body *)
Respond(p, rq, response) ==
    /\ pc'   = [pc EXCEPT ![p] = "done"]
    /\ req'  = [req EXCEPT ![p] = rq]
    /\ resp' = [resp EXCEPT ![p] = response]
    /\ failed' = [failed EXCEPT ![p] = response.msg \in Errors]
    /\ UNCHANGED prev

(* the storage call returned Ok and the handler goes on to its next call *)
Await(p, rq, label) ==
    /\ pc'  = [pc EXCEPT ![p] = label]
    /\ req' = [req EXCEPT ![p] = rq]
    /\ UNCHANGED <<resp, prev, failed>>

(* The response is written out and the connection waits for its next request;
   prev remembers the request just answered when it was a delete that succeeded *)
Return(p) ==
    /\ pc[p] = "done"
    /\ pc'   = [pc EXCEPT ![p] = "idle"]
    /\ req'  = [req EXCEPT ![p] = NoRequest]
    /\ resp' = [resp EXCEPT ![p] = NoResponse]
    /\ prev' = IF req[p].op \in DeleteOps /\ resp[p].status = 200 THEN req[p] ELSE NoDelete
    /\ failed' = [failed EXCEPT ![p] = FALSE]
    /\ UNCHANGED <<db, workload>>

(* what the App answers when no registered service matches the request:
   404 with an empty body *)
default_service_response == Response(404, "none", {}, "")

(* a request for an operation main registered no service for, and whose
   method and path match no registered service *)
default_service(p) ==
    /\ pc[p] = "idle"
    /\ p \in workload.procs
    /\ workload.app
    /\ \E op \in workload.ops \ (Routed \cup {"get_all_archived_reports"}) :
         Respond(p, [op |-> "default_service", handler |-> op], default_service_response)
    /\ UNCHANGED <<db, workload>>

(* GET /report/archived: get_all_archived_reports is not registered, and the
   request matches the registered GET /report/{report_id} of get_report, whose
   Path<i32> extractor fails on "archived": 404 with the parse error as body;
   get_report's body does not run *)
get_report_path_error(p) ==
    /\ pc[p] = "idle"
    /\ p \in workload.procs
    /\ workload.app
    /\ "get_all_archived_reports" \in workload.ops
    /\ "get_report" \in Routed
    /\ Respond(p, [op |-> "path_error", handler |-> "get_all_archived_reports"],
               NotFound("can not parse archived to a i32"))
    /\ UNCHANGED <<db, workload>>

----------------------------------------------------------------------------
(* room.rs *)

(* GET /room/ *)
get_all_rooms(p) ==
    /\ Accept(p, "get_all_rooms")
    /\ \E out \in Outcomes :
         Respond(p, [op |-> "get_all_rooms"],
                 IF out = "ok" THEN OkList(get_all_rooms_sql(room))
                 ELSE InternalServerError(err(out)))
    /\ UNCHANGED <<db, workload>>

(* GET /room/{room_id} *)
get_room_response(rooms, room_id, out) ==
    LET found == get_room_sql(rooms, room_id) IN
    IF out # "ok" THEN InternalServerError(err(out))
    ELSE IF found # {} THEN Ok(First(found))
    ELSE NotFound("The room id {room_id} was not found.")

get_room(p) ==
    /\ Accept(p, "get_room")
    /\ \E room_id \in RoomIds, out \in Outcomes :
         Respond(p, [op |-> "get_room", room_id |-> room_id], get_room_response(room, room_id, out))
    /\ UNCHANGED <<db, workload>>

(* POST /room/: the id comes from the table's sequence *)
add_room(p) ==
    /\ Accept(p, "add_room")
    /\ \E submission \in RoomSubmission, out \in InsertOutcomes :
         LET rq  == [op |-> "add_room", submission |-> submission]
             row == add_room_sql(room_seq, submission) IN
         IF out \in {"ok", ReplyLost}
         THEN /\ room_seq < MaxRooms
              /\ Respond(p, rq, IF out = "ok" THEN Created(row)
                                  ELSE InternalServerError(err(out)))
              /\ room' = room \cup {row}
              /\ room_seq' = nextval(room_seq)
         ELSE /\ Respond(p, rq, InternalServerError(err(out)))
              /\ UNCHANGED <<room, room_seq>>
    /\ UNCHANGED <<machine, user, report, report_seq, workload>>

(* mutant: the handler also deletes the machines of the room *)
delete_room_execute_cascading(p) ==
    /\ pc[p] = "delete_room:execute"
    /\ \E out \in Outcomes :
         LET deleted == delete_room_sql(room, req[p].room_id)
             ran     == out \in {"ok", ReplyLost} IN
         /\ Respond(p, req[p], IF out # "ok" THEN InternalServerError(err(out))
                                ELSE IF deleted = {} THEN InternalServerError(RowNotFound)
                                ELSE Ok(First(deleted)))
         /\ room' = IF ran THEN room \ deleted ELSE room
         /\ machine' = IF ran /\ deleted # {}
                       THEN machine \ get_room_machines_sql(machine, req[p].room_id)
                       ELSE machine
    /\ UNCHANGED <<user, report, room_seq, report_seq, workload>>

delete_room_validate(p) ==
    /\ Accept(p, "delete_room")
    /\ \E room_id \in RoomIds, out \in Outcomes :
         LET rq == [op |-> "delete_room", room_id |-> room_id] IN
         IF out # "ok" THEN Respond(p, rq, InternalServerError(err(out)))
         ELSE IF ~is_room_present(room, room_id) THEN Respond(p, rq, NotFound("Room id {room_id} was not found."))
         ELSE Await(p, rq, "delete_room:execute")
    /\ UNCHANGED <<db, workload>>

delete_room_execute(p) ==
    /\ pc[p] = "delete_room:execute"
    /\ \E out \in Outcomes :
         LET deleted == delete_room_sql(room, req[p].room_id)
             ran     == out \in {"ok", ReplyLost} IN
         /\ Respond(p, req[p], IF out # "ok" THEN InternalServerError(err(out))
                                ELSE IF deleted = {} THEN InternalServerError(RowNotFound)
                                ELSE Ok(First(deleted)))
         /\ room' = IF ran THEN room \ deleted ELSE room
    /\ UNCHANGED <<machine, user, report, room_seq, report_seq, workload>>

delete_room(p) == delete_room_validate(p) \/ delete_room_execute(p)

get_room_machines_validate(p) ==
    /\ Accept(p, "get_room_machines")
    /\ \E room_id \in RoomIds, out \in Outcomes :
         LET rq == [op |-> "get_room_machines", room_id |-> room_id] IN
         IF out # "ok" THEN Respond(p, rq, InternalServerError(err(out)))
         ELSE IF ~is_room_present(room, room_id) THEN Respond(p, rq, NotFound("Room id {room_id} was not found."))
         ELSE Await(p, rq, "get_room_machines:execute")
    /\ UNCHANGED <<db, workload>>

get_room_machines_execute(p) ==
    /\ pc[p] = "get_room_machines:execute"
    /\ \E out \in Outcomes :
         Respond(p, req[p],
                 IF out = "ok" THEN OkList(get_room_machines_sql(machine, req[p].room_id))
                 ELSE InternalServerError(err(out)))
    /\ UNCHANGED <<db, workload>>

get_room_machines(p) == get_room_machines_validate(p) \/ get_room_machines_execute(p)

get_room_reports_validate(p) ==
    /\ Accept(p, "get_room_reports")
    /\ \E room_id \in RoomIds, out \in Outcomes :
         LET rq == [op |-> "get_room_reports", room_id |-> room_id] IN
         IF out # "ok" THEN Respond(p, rq, InternalServerError(err(out)))
         ELSE IF ~is_room_present(room, room_id) THEN Respond(p, rq, NotFound("Room id {room_id} was not found."))
         ELSE Await(p, rq, "get_room_reports:execute")
    /\ UNCHANGED <<db, workload>>

get_room_reports_execute(p) ==
    /\ pc[p] = "get_room_reports:execute"
    /\ \E out \in Outcomes :
         Respond(p, req[p],
                 IF out = "ok" THEN OkList(get_room_reports_sql(report, req[p].room_id))
                 ELSE InternalServerError(err(out)))
    /\ UNCHANGED <<db, workload>>

get_room_reports(p) == get_room_reports_validate(p) \/ get_room_reports_execute(p)

get_room_archived_reports_validate(p) ==
    /\ Accept(p, "get_room_archived_reports")
    /\ \E room_id \in RoomIds, out \in Outcomes :
         LET rq == [op |-> "get_room_archived_reports", room_id |-> room_id] IN
         IF out # "ok" THEN Respond(p, rq, InternalServerError(err(out)))
         ELSE IF ~is_room_present(room, room_id) THEN Respond(p, rq, NotFound("Room id {room_id} was not found."))
         ELSE Await(p, rq, "get_room_archived_reports:execute")
    /\ UNCHANGED <<db, workload>>

get_room_archived_reports_execute(p) ==
    /\ pc[p] = "get_room_archived_reports:execute"
    /\ \E out \in Outcomes :
         Respond(p, req[p],
                 IF out = "ok" THEN OkList(get_room_archived_reports_sql(report, req[p].room_id))
                 ELSE InternalServerError(err(out)))
    /\ UNCHANGED <<db, workload>>

get_room_archived_reports(p) == get_room_archived_reports_validate(p) \/ get_room_archived_reports_execute(p)

----------------------------------------------------------------------------
(* machine.rs *)

(* GET /machine/ *)
get_all_machines(p) ==
    /\ Accept(p, "get_all_machines")
    /\ \E out \in Outcomes :
         Respond(p, [op |-> "get_all_machines"],
                 IF out = "ok" THEN OkList(get_all_machines_sql(machine))
                 ELSE InternalServerError(err(out)))
    /\ UNCHANGED <<db, workload>>

(* GET /machine/{room_id}/{machine_id} *)
get_machine_response(machines, room_id, machine_id, out) ==
    LET found == get_machine_sql(machines, room_id, machine_id) IN
    IF out # "ok" THEN InternalServerError(err(out))
    ELSE IF found # {} THEN Ok(First(found))
    ELSE NotFound("Machine id {machine_id} was not found in room id {room_id}.")

get_machine(p) ==
    /\ Accept(p, "get_machine")
    /\ \E room_id \in RoomIds, machine_id \in MachineIds, out \in Outcomes :
         Respond(p, [op |-> "get_machine", room_id |-> room_id, machine_id |-> machine_id], get_machine_response(machine, room_id, machine_id, out))
    /\ UNCHANGED <<db, workload>>

(* POST /machine/: the room must exist, the machine must not *)
add_machine_validate_room(p) ==
    /\ Accept(p, "add_machine")
    /\ \E submission \in MachineSubmission, out \in Outcomes :
         LET rq == [op |-> "add_machine", submission |-> submission] IN
         IF out # "ok" THEN Respond(p, rq, InternalServerError(err(out)))
         ELSE IF ~is_room_present(room, submission.room_id)
         THEN Respond(p, rq, BadRequest("The room id {room_id} was not found."))
         ELSE Await(p, rq, "add_machine:validate_machine")
    /\ UNCHANGED <<db, workload>>

add_machine_validate_machine(p) ==
    /\ pc[p] = "add_machine:validate_machine"
    /\ \E out \in Outcomes :
         LET submission == req[p].submission IN
         IF out # "ok" THEN Respond(p, req[p], InternalServerError(err(out)))
         ELSE IF is_machine_present(machine, submission.room_id, submission.machine_id)
         THEN Respond(p, req[p], Conflict("Machine id {machine_id} already exists in room id {room_id}."))
         ELSE Await(p, req[p], "add_machine:execute")
    /\ UNCHANGED <<db, workload>>

add_machine_execute(p) ==
    /\ pc[p] = "add_machine:execute"
    /\ \E out \in InsertOutcomes :
         LET row == add_machine_sql(req[p].submission)
             res == IF out = "ok" /\ machine_key_taken(machine, row) THEN DatabaseError ELSE out
             ran == out \in {"ok", ReplyLost} /\ ~machine_key_taken(machine, row) IN
         /\ Respond(p, req[p], IF res = "ok" THEN Created(row) ELSE InternalServerError(err(res)))
         /\ machine' = IF ran THEN machine \cup {row} ELSE machine
    /\ UNCHANGED <<room, user, report, room_seq, report_seq, workload>>

add_machine(p) ==
    add_machine_validate_room(p) \/ add_machine_validate_machine(p) \/ add_machine_execute(p)

delete_machine_validate(p) ==
    /\ Accept(p, "delete_machine")
    /\ \E room_id \in RoomIds, machine_id \in MachineIds, out \in Outcomes :
         LET rq == [op |-> "delete_machine", room_id |-> room_id, machine_id |-> machine_id] IN
         IF out # "ok" THEN Respond(p, rq, InternalServerError(err(out)))
         ELSE IF ~is_machine_present(machine, room_id, machine_id) THEN Respond(p, rq, NotFound("Machine id {machine_id} was not found in room id {room_id}."))
         ELSE Await(p, rq, "delete_machine:execute")
    /\ UNCHANGED <<db, workload>>

delete_machine_execute(p) ==
    /\ pc[p] = "delete_machine:execute"
    /\ \E out \in Outcomes :
         LET deleted == delete_machine_sql(machine, req[p].room_id, req[p].machine_id)
             ran     == out \in {"ok", ReplyLost} IN
         /\ Respond(p, req[p], IF out # "ok" THEN InternalServerError(err(out))
                                ELSE IF deleted = {} THEN InternalServerError(RowNotFound)
                                ELSE Ok(First(deleted)))
         /\ machine' = IF ran THEN machine \ deleted ELSE machine
    /\ UNCHANGED <<room, user, report, room_seq, report_seq, workload>>

delete_machine(p) == delete_machine_validate(p) \/ delete_machine_execute(p)

(* mutant: an absent machine is answered 404, as the room and user listings do *)
get_machine_reports_validate_not_found(p) ==
    /\ Accept(p, "get_machine_reports")
    /\ \E room_id \in RoomIds, machine_id \in MachineIds, out \in Outcomes :
         LET rq == [op |-> "get_machine_reports", room_id |-> room_id, machine_id |-> machine_id] IN
         IF out # "ok" THEN Respond(p, rq, InternalServerError(err(out)))
         ELSE IF ~is_machine_present(machine, room_id, machine_id)
         THEN Respond(p, rq, NotFound("Machine id {machine_id} was not found in room id {room_id}"))
         ELSE Await(p, rq, "get_machine_reports:execute")
    /\ UNCHANGED <<db, workload>>

get_machine_reports_validate(p) ==
    /\ Accept(p, "get_machine_reports")
    /\ \E room_id \in RoomIds, machine_id \in MachineIds, out \in Outcomes :
         LET rq == [op |-> "get_machine_reports", room_id |-> room_id, machine_id |-> machine_id] IN
         IF out # "ok" THEN Respond(p, rq, InternalServerError(err(out)))
         ELSE IF ~is_machine_present(machine, room_id, machine_id) THEN Respond(p, rq, BadRequest("Machine id {machine_id} was not found in room id {room_id}"))
         ELSE Await(p, rq, "get_machine_reports:execute")
    /\ UNCHANGED <<db, workload>>

get_machine_reports_execute(p) ==
    /\ pc[p] = "get_machine_reports:execute"
    /\ \E out \in Outcomes :
         Respond(p, req[p],
                 IF out = "ok" THEN OkList(get_machine_reports_sql(report, req[p].room_id, req[p].machine_id))
                 ELSE InternalServerError(err(out)))
    /\ UNCHANGED <<db, workload>>

get_machine_reports(p) == get_machine_reports_validate(p) \/ get_machine_reports_execute(p)

get_machine_archived_reports_validate(p) ==
    /\ Accept(p, "get_machine_archived_reports")
    /\ \E room_id \in RoomIds, machine_id \in MachineIds, out \in Outcomes :
         LET rq == [op |-> "get_machine_archived_reports", room_id |-> room_id, machine_id |-> machine_id] IN
         IF out # "ok" THEN Respond(p, rq, InternalServerError(err(out)))
         ELSE IF ~is_machine_present(machine, room_id, machine_id) THEN Respond(p, rq, BadRequest("Machine id {machine_id} was not found in room id {room_id}"))
         ELSE Await(p, rq, "get_machine_archived_reports:execute")
    /\ UNCHANGED <<db, workload>>

get_machine_archived_reports_execute(p) ==
    /\ pc[p] = "get_machine_archived_reports:execute"
    /\ \E out \in Outcomes :
         Respond(p, req[p],
                 IF out = "ok" THEN OkList(get_machine_archived_reports_sql(report, req[p].room_id, req[p].machine_id))
                 ELSE InternalServerError(err(out)))
    /\ UNCHANGED <<db, workload>>

get_machine_archived_reports(p) == get_machine_archived_reports_validate(p) \/ get_machine_archived_reports_execute(p)

----------------------------------------------------------------------------
(* user.rs *)

(* GET /user/ *)
get_all_users(p) ==
    /\ Accept(p, "get_all_users")
    /\ \E out \in Outcomes :
         Respond(p, [op |-> "get_all_users"],
                 IF out = "ok" THEN OkList(get_all_users_sql(user))
                 ELSE InternalServerError(err(out)))
    /\ UNCHANGED <<db, workload>>

(* GET /user/{username} *)
get_user_response(users, username, out) ==
    LET found == get_user_sql(users, username) IN
    IF out # "ok" THEN InternalServerError(err(out))
    ELSE IF found # {} THEN Ok(First(found))
    ELSE NotFound("The user {username} was not found.")

get_user(p) ==
    /\ Accept(p, "get_user")
    /\ \E username \in Usernames, out \in Outcomes :
         Respond(p, [op |-> "get_user", username |-> username], get_user_response(user, username, out))
    /\ UNCHANGED <<db, workload>>

(* POST /user/: the username must be free *)
add_user_validate(p) ==
    /\ Accept(p, "add_user")
    /\ \E submission \in UserSubmission, out \in Outcomes :
         LET rq == [op |-> "add_user", submission |-> submission] IN
         IF out # "ok" THEN Respond(p, rq, InternalServerError(err(out)))
         ELSE IF is_username_present(user, submission.username)
         THEN Respond(p, rq, Conflict("{username} is already taken"))
         ELSE Await(p, rq, "add_user:execute")
    /\ UNCHANGED <<db, workload>>

(* mutant: a Database error of the INSERT is answered as a conflict *)
add_user_execute_conflict_on_database(p) ==
    /\ pc[p] = "add_user:execute"
    /\ \E out \in InsertOutcomes :
         LET row == add_user_sql(req[p].submission)
             res == IF out = "ok" /\ user_key_taken(user, row) THEN DatabaseError ELSE out
             ran == out \in {"ok", ReplyLost} /\ ~user_key_taken(user, row) IN
         /\ Respond(p, req[p], IF res = "ok" THEN Created(row)
                                ELSE IF res = DatabaseError THEN Conflict(res)
                                ELSE InternalServerError(err(res)))
         /\ user' = IF ran THEN user \cup {row} ELSE user
    /\ UNCHANGED <<room, machine, report, room_seq, report_seq, workload>>

add_user_execute(p) ==
    /\ pc[p] = "add_user:execute"
    /\ \E out \in InsertOutcomes :
         LET row == add_user_sql(req[p].submission)
             res == IF out = "ok" /\ user_key_taken(user, row) THEN DatabaseError ELSE out
             ran == out \in {"ok", ReplyLost} /\ ~user_key_taken(user, row) IN
         /\ Respond(p, req[p], IF res = "ok" THEN Created(row) ELSE InternalServerError(err(res)))
         /\ user' = IF ran THEN user \cup {row} ELSE user
    /\ UNCHANGED <<room, machine, report, room_seq, report_seq, workload>>

add_user(p) == add_user_validate(p) \/ add_user_execute(p)

delete_user_validate(p) ==
    /\ Accept(p, "delete_user")
    /\ \E username \in Usernames, out \in Outcomes :
         LET rq == [op |-> "delete_user", username |-> username] IN
         IF out # "ok" THEN Respond(p, rq, InternalServerError(err(out)))
         ELSE IF ~is_username_present(user, username) THEN Respond(p, rq, NotFound("The user {username} was not found."))
         ELSE Await(p, rq, "delete_user:execute")
    /\ UNCHANGED <<db, workload>>

delete_user_execute(p) ==
    /\ pc[p] = "delete_user:execute"
    /\ \E out \in Outcomes :
         LET deleted == delete_user_sql(user, req[p].username)
             res     == IF out = "ok" /\ user_key_referenced(report, deleted) THEN DatabaseError ELSE out
             ran     == out \in {"ok", ReplyLost} /\ ~user_key_referenced(report, deleted) IN
         /\ Respond(p, req[p], IF res # "ok" THEN InternalServerError(err(res))
                                ELSE IF deleted = {} THEN InternalServerError(RowNotFound)
                                ELSE Ok(First(deleted)))
         /\ user' = IF ran THEN user \ deleted ELSE user
    /\ UNCHANGED <<room, machine, report, room_seq, report_seq, workload>>

delete_user(p) == delete_user_validate(p) \/ delete_user_execute(p)

get_user_reports_validate(p) ==
    /\ Accept(p, "get_user_reports")
    /\ \E username \in Usernames, out \in Outcomes :
         LET rq == [op |-> "get_user_reports", username |-> username] IN
         IF out # "ok" THEN Respond(p, rq, InternalServerError(err(out)))
         ELSE IF ~is_username_present(user, username) THEN Respond(p, rq, NotFound("The user {username} was not found."))
         ELSE Await(p, rq, "get_user_reports:execute")
    /\ UNCHANGED <<db, workload>>

get_user_reports_execute(p) ==
    /\ pc[p] = "get_user_reports:execute"
    /\ \E out \in Outcomes :
         Respond(p, req[p],
                 IF out = "ok" THEN OkList(get_user_reports_sql(report, req[p].username))
                 ELSE InternalServerError(err(out)))
    /\ UNCHANGED <<db, workload>>

get_user_reports(p) == get_user_reports_validate(p) \/ get_user_reports_execute(p)

get_user_archived_reports_validate(p) ==
    /\ Accept(p, "get_user_archived_reports")
    /\ \E username \in Usernames, out \in Outcomes :
         LET rq == [op |-> "get_user_archived_reports", username |-> username] IN
         IF out # "ok" THEN Respond(p, rq, InternalServerError(err(out)))
         ELSE IF ~is_username_present(user, username) THEN Respond(p, rq, NotFound("The user {username} was not found."))
         ELSE Await(p, rq, "get_user_archived_reports:execute")
    /\ UNCHANGED <<db, workload>>

get_user_archived_reports_execute(p) ==
    /\ pc[p] = "get_user_archived_reports:execute"
    /\ \E out \in Outcomes :
         Respond(p, req[p],
                 IF out = "ok" THEN OkList(get_user_archived_reports_sql(report, req[p].username))
                 ELSE InternalServerError(err(out)))
    /\ UNCHANGED <<db, workload>>

get_user_archived_reports(p) == get_user_archived_reports_validate(p) \/ get_user_archived_reports_execute(p)

----------------------------------------------------------------------------
(* report.rs *)

(* GET /report/ *)
get_all_reports(p) ==
    /\ Accept(p, "get_all_reports")
    /\ \E out \in Outcomes :
         Respond(p, [op |-> "get_all_reports"],
                 IF out = "ok" THEN OkList(get_all_reports_sql(report))
                 ELSE InternalServerError(err(out)))
    /\ UNCHANGED <<db, workload>>

(* GET /report/archived *)
get_all_archived_reports(p) ==
    /\ Accept(p, "get_all_archived_reports")
    /\ \E out \in Outcomes :
         Respond(p, [op |-> "get_all_archived_reports"],
                 IF out = "ok" THEN OkList(get_all_archived_reports_sql(report))
                 ELSE InternalServerError(err(out)))
    /\ UNCHANGED <<db, workload>>

(* mutant: the query is the DELETE ... RETURNING of delete_report *)
get_report_by_delete_returning(p) ==
    /\ Accept(p, "get_report")
    /\ \E report_id \in ReportIds, out \in Outcomes :
         /\ Respond(p, [op |-> "get_report", report_id |-> report_id],
                    IF out # "ok" THEN InternalServerError(err(out))
                    ELSE IF delete_report_sql(report, report_id) # {}
                    THEN Ok(First(delete_report_sql(report, report_id)))
                    ELSE NotFound("The report id {report_id} was not found."))
         /\ report' = IF out \in {"ok", ReplyLost} THEN report \ delete_report_sql(report, report_id) ELSE report
    /\ UNCHANGED <<room, machine, user, room_seq, report_seq, workload>>

(* GET /report/{report_id} *)
get_report_response(reports, report_id, out) ==
    LET found == get_report_sql(reports, report_id) IN
    IF out # "ok" THEN InternalServerError(err(out))
    ELSE IF found # {} THEN Ok(First(found))
    ELSE NotFound("The report id {report_id} was not found.")

get_report(p) ==
    /\ Accept(p, "get_report")
    /\ \E report_id \in ReportIds, out \in Outcomes :
         Respond(p, [op |-> "get_report", report_id |-> report_id], get_report_response(report, report_id, out))
    /\ UNCHANGED <<db, workload>>

(* mutant: the existence check is not made *)
submit_report_validate_skipped(p) ==
    /\ Accept(p, "submit_report")
    /\ \E submission \in ReportSubmission, out \in Outcomes :
         LET rq == [op |-> "submit_report", submission |-> submission] IN
         IF out # "ok" THEN Respond(p, rq, InternalServerError(err(out)))
         ELSE Await(p, rq, "submit_report:execute")
    /\ UNCHANGED <<db, workload>>

(* POST /report/: the machine must exist in the room; the time is read from the
   server clock right before the INSERT; the id comes from the table's sequence *)
submit_report_validate(p) ==
    /\ Accept(p, "submit_report")
    /\ \E submission \in ReportSubmission, out \in Outcomes :
         LET rq == [op |-> "submit_report", submission |-> submission] IN
         IF out # "ok" THEN Respond(p, rq, InternalServerError(err(out)))
         ELSE IF ~is_machine_present(machine, submission.room_id, submission.machine_id)
         THEN Respond(p, rq, BadRequest("Room id {room_id} does not contain machine id {machine_id}."))
         ELSE Await(p, rq, "submit_report:execute")
    /\ UNCHANGED <<db, workload>>

(* mutant: every error of the INSERT is answered 500, as the add handlers do *)
submit_report_execute_all_errors_500(p) ==
    /\ pc[p] = "submit_report:execute"
    /\ \E current_time \in Times, out \in InsertOutcomes :
         LET row == submit_report_sql(report_seq, req[p].submission, current_time)
             res == IF out = "ok" /\ reporter_key_missing(user, row) THEN DatabaseError ELSE out
             ran == out \in {"ok", ReplyLost} /\ ~reporter_key_missing(user, row) IN
         /\ Respond(p, req[p], IF res = "ok" THEN Created(row) ELSE InternalServerError(err(res)))
         /\ IF ran
            THEN /\ report_seq < MaxReports
                 /\ report' = report \cup {row}
                 /\ report_seq' = nextval(report_seq)
            ELSE UNCHANGED <<report, report_seq>>
    /\ UNCHANGED <<room, machine, user, room_seq, workload>>

submit_report_execute(p) ==
    /\ pc[p] = "submit_report:execute"
    /\ \E current_time \in Times, out \in InsertOutcomes :
         LET row == submit_report_sql(report_seq, req[p].submission, current_time)
             res == IF out = "ok" /\ reporter_key_missing(user, row) THEN DatabaseError ELSE out
             ran == out \in {"ok", ReplyLost} /\ ~reporter_key_missing(user, row) IN
         /\ Respond(p, req[p], IF res = "ok" THEN Created(row)
                                ELSE IF res = DatabaseError THEN BadRequest(res)
                                ELSE InternalServerError(err(res)))
         /\ IF ran
            THEN /\ report_seq < MaxReports
                 /\ report' = report \cup {row}
                 /\ report_seq' = nextval(report_seq)
            ELSE UNCHANGED <<report, report_seq>>
    /\ UNCHANGED <<room, machine, user, room_seq, workload>>

submit_report(p) == submit_report_validate(p) \/ submit_report_execute(p)

(* mutant: a failed existence check counts as "present" and the DELETE is tried *)
delete_report_validate_goes_on_after_error(p) ==
    /\ Accept(p, "delete_report")
    /\ \E report_id \in ReportIds, out \in Outcomes :
         LET rq == [op |-> "delete_report", report_id |-> report_id] IN
         IF out # "ok"
         THEN /\ pc' = [pc EXCEPT ![p] = "delete_report:execute"]
              /\ req' = [req EXCEPT ![p] = rq]
              /\ failed' = [failed EXCEPT ![p] = TRUE]
              /\ UNCHANGED <<resp, prev>>
         ELSE IF ~is_report_present(report, report_id)
         THEN Respond(p, rq, NotFound("Report id {report_id} was not found."))
         ELSE Await(p, rq, "delete_report:execute")
    /\ UNCHANGED <<db, workload>>

delete_report_validate(p) ==
    /\ Accept(p, "delete_report")
    /\ \E report_id \in ReportIds, out \in Outcomes :
         LET rq == [op |-> "delete_report", report_id |-> report_id] IN
         IF out # "ok" THEN Respond(p, rq, InternalServerError(err(out)))
         ELSE IF ~is_report_present(report, report_id) THEN Respond(p, rq, NotFound("Report id {report_id} was not found."))
         ELSE Await(p, rq, "delete_report:execute")
    /\ UNCHANGED <<db, workload>>

delete_report_execute(p) ==
    /\ pc[p] = "delete_report:execute"
    /\ \E out \in Outcomes :
         LET deleted == delete_report_sql(report, req[p].report_id)
             ran     == out \in {"ok", ReplyLost} IN
         /\ Respond(p, req[p], IF out # "ok" THEN InternalServerError(err(out))
                                ELSE IF deleted = {} THEN InternalServerError(RowNotFound)
                                ELSE Ok(First(deleted)))
         /\ report' = IF ran THEN report \ deleted ELSE report
    /\ UNCHANGED <<room, machine, user, room_seq, report_seq, workload>>

delete_report(p) == delete_report_validate(p) \/ delete_report_execute(p)

(* POST /report/archive *)
archive_report_validate(p) ==
    /\ Accept(p, "archive_report")
    /\ \E submission \in ArchiveSubmission, out \in Outcomes :
         LET rq == [op |-> "archive_report", report_id |-> submission.report_id] IN
         IF out # "ok" THEN Respond(p, rq, InternalServerError(err(out)))
         ELSE IF ~is_report_present(report, submission.report_id)
         THEN Respond(p, rq, BadRequest("Report id {report_id} was not found."))
         ELSE Await(p, rq, "archive_report:execute")
    /\ UNCHANGED <<db, workload>>

archive_report_execute(p) ==
    /\ pc[p] = "archive_report:execute"
    /\ \E out \in Outcomes :
         LET updated == archive_report_sql(report, req[p].report_id)
             matched == {r \in report : \E u \in updated : u.report_id = r.report_id}
             ran     == out \in {"ok", ReplyLost} IN
         /\ Respond(p, req[p], IF out # "ok" THEN InternalServerError(err(out))
                                ELSE IF updated = {} THEN InternalServerError(RowNotFound)
                                ELSE Ok(First(updated)))
         /\ report' = IF ran THEN (report \ matched) \cup updated ELSE report
    /\ UNCHANGED <<room, machine, user, room_seq, report_seq, workload>>

archive_report(p) == archive_report_validate(p) \/ archive_report_execute(p)
----------------------------------------------------------------------------
(* The runs explored.  The database outlives the server, so a run starts from
   rows earlier requests left behind; each workload names the connections that
   send requests, the handlers they call and the rows found at start.  The
   requests of a run with app = TRUE go to the application main assembles;
   in the other runs the handlers are called as functions. *)

RoomOps    == {"get_all_rooms", "get_room", "add_room", "delete_room", "get_room_machines"}
MachineOps == {"get_all_machines", "get_machine", "add_machine", "delete_machine"}
UserOps    == {"get_all_users", "get_user", "add_user", "delete_user"}
ReportOps  == {"get_all_reports", "get_all_archived_reports", "get_report",
               "submit_report", "delete_report", "archive_report"}
ScopedOps  == {"get_room_reports", "get_room_archived_reports",
               "get_machine_reports", "get_machine_archived_reports",
               "get_user_reports", "get_user_archived_reports"}

(* a database nobody has written to yet *)
EmptyDb ==
    [room |-> {}, machine |-> {}, user |-> {}, report |-> {}, room_seq |-> 0, report_seq |-> 0]

(* two rooms with one machine each and two users, as add_room, add_machine and
   add_user leave them; no reports yet *)
SeededDb ==
    [room |-> {Room(1, "Room 1", "Room 1 in Complex A"), Room(2, "Room 2", None)},
     machine |-> {Machine("A", 1, "Dryer"), Machine("A", 2, "Washer")},
     user |-> {User("admin", TRUE), User("bob", FALSE)},
     report |-> {}, room_seq |-> 2, report_seq |-> 0]

(* the seeded rows after delete_machine of (1, "A") and delete_room of 2: room
   1 has no machine and the machine of room 2 stays behind *)
OrphanedDb ==
    [SeededDb EXCEPT !.room = {r \in @ : r.room_id = 1},
                     !.machine = {m \in @ : m.room_id = 2}]

(* the seeded rows after one submit_report *)
ReportedDb ==
    [SeededDb EXCEPT !.report = {submit_report_sql(0, CHOOSE s \in ReportSubmission : s.room_id = 1 /\ s.machine_id = "A", "now")},
                     !.report_seq = 1]

Submit == {"submit_report", "archive_report"}

Workloads ==
    { [name |-> "rooms", procs |-> {1}, app |-> FALSE, start |-> EmptyDb,
       ops |-> {"get_all_rooms", "get_room", "add_room", "delete_room"}],
      [name |-> "machines", procs |-> {1}, app |-> FALSE, start |-> [SeededDb EXCEPT !.machine = {}],
       ops |-> MachineOps \cup {"get_room_machines", "delete_room"}],
      [name |-> "users", procs |-> {1}, app |-> FALSE, start |-> EmptyDb,
       ops |-> UserOps],
      [name |-> "reports", procs |-> {1}, app |-> FALSE, start |-> SeededDb,
       ops |-> ReportOps],
      [name |-> "reports of a room", procs |-> {1}, app |-> FALSE, start |-> SeededDb,
       ops |-> Submit \cup {"get_room_reports", "get_room_archived_reports", "delete_room"}],
      [name |-> "reports of a machine", procs |-> {1}, app |-> FALSE, start |-> SeededDb,
       ops |-> Submit \cup {"get_machine_reports", "get_machine_archived_reports", "delete_machine"}],
      [name |-> "reports of a user", procs |-> {1}, app |-> FALSE, start |-> SeededDb,
       ops |-> Submit \cup {"get_user_reports", "get_user_archived_reports", "delete_user"}],
      [name |-> "concurrent users", procs |-> {1, 2}, app |-> FALSE, start |-> EmptyDb,
       ops |-> {"add_user", "delete_user"}],
      [name |-> "concurrent reports", procs |-> {1, 2}, app |-> FALSE, start |-> SeededDb,
       ops |-> {"submit_report", "delete_report"}],
      [name |-> "concurrent archiving", procs |-> {1, 2}, app |-> FALSE, start |-> ReportedDb,
       ops |-> {"archive_report", "delete_report"}],
      [name |-> "concurrent machines", procs |-> {1, 2}, app |-> FALSE, start |-> OrphanedDb,
       ops |-> {"add_machine", "delete_room"}],
      [name |-> "reports of a machine being deleted", procs |-> {1, 2}, app |-> FALSE, start |-> SeededDb,
       ops |-> {"submit_report", "delete_machine"}],
      [name |-> "application", procs |-> {1}, app |-> TRUE, start |-> SeededDb,
       ops |-> RoomOps \cup MachineOps \cup UserOps \cup ReportOps \cup ScopedOps] }

Init ==
    \E w \in Workloads :
        /\ workload = [name |-> w.name, procs |-> w.procs, app |-> w.app, ops |-> w.ops]
        /\ room = w.start.room /\ machine = w.start.machine
        /\ user = w.start.user /\ report = w.start.report
        /\ room_seq = w.start.room_seq /\ report_seq = w.start.report_seq
        /\ pc = [p \in Procs |-> "idle"]
        /\ req = [p \in Procs |-> NoRequest]
        /\ resp = [p \in Procs |-> NoResponse]
        /\ prev = NoDelete
        /\ failed = [p \in Procs |-> FALSE]

Next ==
    \E p \in Procs :
        \/ get_all_rooms(p) \/ get_room(p) \/ add_room(p) \/ delete_room(p)
        \/ get_room_machines(p) \/ get_room_reports(p) \/ get_room_archived_reports(p)
        \/ get_all_machines(p) \/ get_machine(p) \/ add_machine(p) \/ delete_machine(p)
        \/ get_machine_reports(p) \/ get_machine_archived_reports(p)
        \/ get_all_users(p) \/ get_user(p) \/ add_user(p) \/ delete_user(p)
        \/ get_user_reports(p) \/ get_user_archived_reports(p)
        \/ get_all_reports(p) \/ get_all_archived_reports(p) \/ get_report(p)
        \/ submit_report(p) \/ delete_report(p) \/ archive_report(p)
        \/ default_service(p) \/ get_report_path_error(p)
        \/ Return(p)

Spec == Init /\ [][Next]_vars

----------------------------------------------------------------------------
(* What the properties below speak about *)

Completes(p) == pc[p] # "done" /\ pc'[p] = "done"    \* p's handler answers in this step
Starts(p)    == pc[p] = "idle" /\ pc'[p] # "idle"    \* p's handler makes its first storage call
Sequential   == Cardinality(workload.procs) = 1      \* no two requests overlap in this run

(* the answer carries the error text of a storage call that failed *)
StorageFailed(response) == response.msg \in {IoError, DatabaseError}

GetOps == {"get_room", "get_machine", "get_user", "get_report"}

MachineScoped == {"get_machine_reports", "get_machine_archived_reports"}
RoomScoped    == {"get_room_machines", "get_room_reports", "get_room_archived_reports"}
UserScoped    == {"get_user_reports", "get_user_archived_reports"}

(* the GET handlers *)
ReadOps ==
    {"get_all_rooms", "get_all_machines", "get_all_users", "get_all_reports",
     "get_all_archived_reports"} \cup GetOps \cup MachineScoped \cup RoomScoped \cup UserScoped

(* the handlers whose first storage call is an existence validator *)
ValidatedOps ==
    DeleteOps \cup MachineScoped \cup RoomScoped \cup UserScoped
        \cup {"add_machine", "add_user", "submit_report", "archive_report"}

(* p's step is a call of is_room_present, is_machine_present,
   is_username_present or is_report_present *)
Validates(p) ==
    \/ Starts(p) /\ req'[p].op \in ValidatedOps
    \/ pc[p] = "add_machine:validate_machine" /\ pc'[p] # pc[p]

(* the rows stored under the key a single-entity request names *)
Stored(rq) ==
    CASE rq.op \in {"get_room", "delete_room"} ->
           {r \in room : r.room_id = rq.room_id}
      [] rq.op \in {"get_machine", "delete_machine"} ->
           {m \in machine : m.room_id = rq.room_id /\ m.machine_id = rq.machine_id}
      [] rq.op \in {"get_user", "delete_user"} ->
           {u \in user : u.username = rq.username}
      [] rq.op \in {"get_report", "delete_report", "archive_report"} ->
           {r \in report : r.report_id = rq.report_id}

(* this step removes the rows rows from the table of rq and leaves the rest *)
RemovesOnly(rq, rows) ==
    /\ room'    = IF rq.op = "delete_room"    THEN room \ rows    ELSE room
    /\ machine' = IF rq.op = "delete_machine" THEN machine \ rows ELSE machine
    /\ user'    = IF rq.op = "delete_user"    THEN user \ rows    ELSE user
    /\ report'  = IF rq.op = "delete_report"  THEN report \ rows  ELSE report
    /\ UNCHANGED <<room_seq, report_seq>>

(* the tables a delete of rq is not aimed at are as they were *)
OtherTablesUnchanged(rq) ==
    /\ rq.op # "delete_room"    => room' = room
    /\ rq.op # "delete_machine" => machine' = machine
    /\ rq.op # "delete_user"    => user' = user
    /\ rq.op # "delete_report"  => report' = report
    /\ UNCHANGED <<room_seq, report_seq>>

(* the handlers whose primary statement is an INSERT, UPDATE or DELETE *)
WriteOps ==
    DeleteOps \cup {"add_room", "add_machine", "add_user", "submit_report", "archive_report"}

(* p's step is the primary statement of a writing handler *)
Writes(p) == pc'[p] # pc[p] /\ req'[p].op \in WriteOps /\ ~Validates(p)

(* this step changes the tables as the primary statement of rq does when the
   server runs it, and nothing else *)
StatementRan(rq) ==
    CASE rq.op = "add_room" ->
           /\ room' = room \cup {add_room_sql(room_seq, rq.submission)}
           /\ room_seq' = room_seq + 1
           /\ UNCHANGED <<machine, user, report, report_seq>>
      [] rq.op = "add_machine" ->
           /\ machine' = machine \cup {add_machine_sql(rq.submission)}
           /\ UNCHANGED <<room, user, report, room_seq, report_seq>>
      [] rq.op = "add_user" ->
           /\ user' = user \cup {add_user_sql(rq.submission)}
           /\ UNCHANGED <<room, machine, report, room_seq, report_seq>>
      [] rq.op = "submit_report" ->
           /\ \E t \in Times : report' = report \cup {submit_report_sql(report_seq, rq.submission, t)}
           /\ report_seq' = report_seq + 1
           /\ UNCHANGED <<room, machine, user, room_seq>>
      [] rq.op = "archive_report" ->
           /\ report' = (report \ Stored(rq)) \cup {[r EXCEPT !.archived = TRUE] : r \in Stored(rq)}
           /\ UNCHANGED <<room, machine, user, room_seq, report_seq>>
      [] rq.op \in DeleteOps -> RemovesOnly(rq, Stored(rq))

Archived(reports)   == {r \in reports : r.archived}
Unarchived(reports) == {r \in reports : ~r.archived}

(* C1: once archive_report has answered 200 for a report, the row has
   archived = true, get_all_archived_reports returns it and get_all_reports does
   not, and this stays so in every later state in which the row exists. *)
C1_ArchivedReportIsListedAsArchived ==
    [][ /\ \A p \in Procs :
             (Completes(p) /\ req'[p].op = "archive_report" /\ resp'[p].status = 200) =>
                 /\ \E r \in report' : r.report_id = req'[p].report_id /\ resp'[p] = Ok(r)
                 /\ \A r \in report' : r.report_id = req'[p].report_id =>
                        /\ r.archived = TRUE
                        /\ r \in get_all_archived_reports_sql(report')
                        /\ r \notin get_all_reports_sql(report')
        /\ \A r \in report :
             (r.archived /\ r \in get_all_archived_reports_sql(report)
                         /\ r \notin get_all_reports_sql(report)) =>
                 \A x \in report' : x.report_id = r.report_id =>
                     /\ x.archived = TRUE
                     /\ x \in get_all_archived_reports_sql(report')
                     /\ x \notin get_all_reports_sql(report')
      ]_vars

C1_Witness ==
    \E p \in Procs :
        /\ pc[p] = "done" /\ req[p].op = "archive_report" /\ resp[p].status = 200
        /\ \E r \in get_all_archived_reports_sql(report) : r.report_id = req[p].report_id
        /\ \E r \in get_all_reports_sql(report) : r.report_id # req[p].report_id

(* C2: for an existing room R, get_room_archived_reports answers with exactly the
   reports of room R that are archived and get_room_reports with exactly those
   that are not; for an absent room both answer 404. *)
C2_RoomListingsSplitByArchived ==
    [][ \A p \in Procs :
          (Completes(p) /\ Sequential /\ ~StorageFailed(resp'[p])
                        /\ req'[p].op \in {"get_room_reports", "get_room_archived_reports"}) =>
              LET R      == req'[p].room_id
                  ofRoom == {r \in report : r.room_id = R} IN
              IF \E r \in room : r.room_id = R
              THEN resp'[p] = OkList(IF req'[p].op = "get_room_archived_reports"
                                     THEN Archived(ofRoom) ELSE Unarchived(ofRoom))
              ELSE resp'[p].status = 404
      ]_vars

(* C3: add_machine for (R, M), run with no other request in flight, answers 400
   and inserts nothing when room R is absent; 409 and inserts nothing when R
   exists and machine (R, M) exists; otherwise 201 with the row (R, M,
   machine_type), which is the one row added, and get_machine(R, M) then
   answers 200 with that row. *)
C3_AddMachine ==
    [][ \A p \in Procs :
          (Completes(p) /\ Sequential /\ req'[p].op = "add_machine"
                        /\ ~StorageFailed(resp'[p])) =>
              LET s   == req'[p].submission
                  row == Machine(s.machine_id, s.room_id, s.machine_type)
                  roomThere    == \E r \in room : r.room_id = s.room_id
                  machineThere == \E m \in machine :
                                      m.room_id = s.room_id /\ m.machine_id = s.machine_id IN
              /\ UNCHANGED <<room, user, report, room_seq, report_seq>>
              /\ ~roomThere => resp'[p].status = 400 /\ machine' = machine
              /\ (roomThere /\ machineThere) => resp'[p].status = 409 /\ machine' = machine
              /\ (roomThere /\ ~machineThere) =>
                     /\ resp'[p] = Created(row)
                     /\ machine' = machine \cup {row}
                     /\ get_machine_response(machine', s.room_id, s.machine_id, "ok") = Ok(row)
      ]_vars

C3_Witness ==
    \E p \in Procs :
        /\ pc[p] = "done" /\ Sequential /\ req[p].op = "add_machine" /\ resp[p].status = 201
        /\ \E m \in machine : /\ m.machine_id = req[p].submission.machine_id
                              /\ m.room_id # req[p].submission.room_id

(* C4: of two deletes of the same stored key, sent one after the other on a
   connection with nothing in between, the first answers 200 with the stored row
   and removes that row only, the second answers 404 and changes nothing. *)
C4_DeleteTwice ==
    [][ \A p \in Procs :
          (Completes(p) /\ Sequential /\ req'[p].op \in DeleteOps
                        /\ ~StorageFailed(resp'[p])) =>
              LET stored == Stored(req'[p]) IN
              /\ stored # {} =>
                     /\ \E row \in stored : stored = {row} /\ resp'[p] = Ok(row)
                     /\ RemovesOnly(req'[p], stored)
              /\ prev = req'[p] => resp'[p].status = 404 /\ UNCHANGED db
      ]_vars

C4_Witness ==
    \E p \in Procs :
        /\ pc[p] = "done" /\ Sequential /\ req[p].op = "delete_machine"
        /\ prev = req[p] /\ resp[p].status = 404
        /\ machine # {}

(* C5: when submit_report's existence check finds no machine row for
   (room_id, machine_id), the handler answers 400 at once (500 if the check
   itself failed), never reaches the INSERT and leaves the report table and its
   id sequence as they were. *)
C5_SubmitForAbsentMachine ==
    [][ \A p \in Procs :
          (Starts(p) /\ req'[p].op = "submit_report"
                     /\ ~\E m \in machine : /\ m.room_id = req'[p].submission.room_id
                                            /\ m.machine_id = req'[p].submission.machine_id) =>
              /\ pc'[p] = "done"
              /\ ~StorageFailed(resp'[p]) => resp'[p].status = 400
              /\ StorageFailed(resp'[p]) => resp'[p].status = 500
              /\ UNCHANGED <<report, report_seq>>
      ]_vars

C5_Witness ==
    \E p \in Procs :
        /\ pc[p] = "done" /\ req[p].op = "submit_report" /\ resp[p].status = 400
        /\ ~StorageFailed(resp[p])
        /\ \E m \in machine : m.machine_id = req[p].submission.machine_id
        /\ report # {}

(* C6: when add_user's existence check finds the username, the handler answers
   409 (500 if the check itself failed), never reaches the INSERT and leaves the
   user table as it was, the stored admin flag included. *)
C6_AddExistingUser ==
    [][ \A p \in Procs :
          (Starts(p) /\ req'[p].op = "add_user"
                     /\ \E u \in user : u.username = req'[p].submission.username) =>
              /\ pc'[p] = "done"
              /\ ~StorageFailed(resp'[p]) => resp'[p].status = 409
              /\ StorageFailed(resp'[p]) => resp'[p].status = 500
              /\ user' = user
      ]_vars

C6_Witness ==
    \E p \in Procs :
        /\ pc[p] = "done" /\ req[p].op = "add_user" /\ resp[p].status = 409
        /\ \E u \in user : /\ u.username = req[p].submission.username
                           /\ u.admin # req[p].submission.admin

(* C7: get_room, get_machine, get_user and get_report answer 404 for a key that
   is not stored and 200 with exactly the stored row for a key that is; they
   answer 500 only when the storage call failed, and change nothing. *)
C7_SingleEntityGet ==
    [][ \A p \in Procs :
          (Completes(p) /\ req'[p].op \in GetOps) =>
              LET stored == Stored(req'[p]) IN
              /\ resp'[p].status = 500 <=> StorageFailed(resp'[p])
              /\ ~StorageFailed(resp'[p]) =>
                     IF stored = {} THEN resp'[p].status = 404
                     ELSE \E row \in stored : stored = {row} /\ resp'[p] = Ok(row)
              /\ UNCHANGED db
      ]_vars

C7_Witness ==
    \E p \in Procs :
        /\ pc[p] = "done" /\ req[p].op = "get_room" /\ resp[p].status = 404
        /\ room # {}

(* C8: a report that has archived = true has it in every later state in which
   a row with its report_id exists, whatever handlers run and however their
   steps interleave. *)
C8_ArchivedIsOneWay ==
    [][ \A r \in report : r.archived =>
            \A x \in report' : x.report_id = r.report_id => x.archived = TRUE ]_vars

C8_Witness ==
    \E p, q \in Procs :
        /\ p # q
        /\ pc[p] = "done" /\ req[p].op = "archive_report" /\ resp[p].status = 200
        /\ pc[q] = "archive_report:execute" /\ req[q].report_id = req[p].report_id
        /\ \E r \in report : r.report_id = req[p].report_id /\ r.archived

(* C9: from its insertion to its deletion a report row keeps its report_id,
   room_id, machine_id, reporter_username, report_type, description and time;
   a step of archive_report changes nothing but the archived flag of the rows
   whose id is the submitted report_id. *)
C9_ReportRowsAreImmutable ==
    [][ /\ \A r \in report : \A x \in report' :
             x.report_id = r.report_id => [x EXCEPT !.archived = r.archived] = r
        /\ \A p \in Procs :
             (Completes(p) /\ req'[p].op = "archive_report") =>
                 /\ {x \in report' : x.report_id # req'[p].report_id}
                      = {r \in report : r.report_id # req'[p].report_id}
                 /\ {x.report_id : x \in report'} = {r.report_id : r \in report}
                 /\ UNCHANGED <<room, machine, user, room_seq, report_seq>>
      ]_vars

C9_Witness ==
    \E p \in Procs :
        /\ pc[p] = "done" /\ req[p].op = "archive_report" /\ resp[p].status = 200
        /\ \E r, x \in report : /\ r.report_id = req[p].report_id /\ r.archived
                               /\ x.report_id # r.report_id /\ ~x.archived
                               /\ x.room_id # r.room_id

(* C10: for a report_id that is not stored when the existence check runs,
   archive_report answers 400 and delete_report answers 404 (500 if the check
   itself failed); neither makes a further storage call or changes a table. *)
C10_ArchiveAbsentIs400DeleteAbsentIs404 ==
    [][ \A p \in Procs :
          (Starts(p) /\ req'[p].op \in {"archive_report", "delete_report"}
                     /\ ~\E r \in report : r.report_id = req'[p].report_id) =>
              /\ pc'[p] = "done"
              /\ StorageFailed(resp'[p]) => resp'[p].status = 500
              /\ ~StorageFailed(resp'[p]) =>
                     resp'[p].status = IF req'[p].op = "archive_report" THEN 400 ELSE 404
              /\ UNCHANGED db
      ]_vars

C10_Witness ==
    \E p \in Procs :
        /\ pc[p] = "done" /\ req[p].op = "archive_report" /\ resp[p].status = 400
        /\ report # {}

(* C11: archive_report on a report that is already archived passes the
   existence check, answers 200 with the row, archived = true, and leaves
   every table as it was: archiving twice leaves what archiving once left. *)
C11_ArchiveIsIdempotent ==
    [][ \A p \in Procs :
          LET isArchived == \E r \in report : r.report_id = req'[p].report_id /\ r.archived IN
          /\ (Starts(p) /\ req'[p].op = "archive_report" /\ isArchived) =>
                 \/ pc'[p] = "archive_report:execute"
                 \/ pc'[p] = "done" /\ StorageFailed(resp'[p]) /\ resp'[p].status = 500
          /\ (Completes(p) /\ pc[p] = "archive_report:execute" /\ isArchived) =>
                 /\ UNCHANGED db
                 /\ \/ StorageFailed(resp'[p]) /\ resp'[p].status = 500
                    \/ \E r \in report : /\ r.report_id = req'[p].report_id /\ r.archived
                                          /\ resp'[p] = Ok(r)
      ]_vars

C11_Witness ==
    \E p, q \in Procs :
        /\ p # q
        /\ pc[p] = "done" /\ req[p].op = "archive_report" /\ resp[p].status = 200
        /\ pc[q] = "done" /\ req[q] = req[p] /\ resp[q] = resp[p]
        /\ \E r \in report : r.report_id = req[p].report_id /\ r.archived

(* C12: when submit_report's INSERT goes through, the handler answers 201 with
   the new row, which is the one row added: it carries the submitted room_id,
   machine_id, reporter_username, report_type and description, archived =
   false, an id no stored report has, and as time the reading of the server
   clock taken at that step; the submission has no time of its own. *)
C12_SubmitReportInsertsTheSubmittedRow ==
    [][ \A p \in Procs :
          (Completes(p) /\ pc[p] = "submit_report:execute" /\ ~StorageFailed(resp'[p])) =>
              LET s == req'[p].submission IN
              /\ resp'[p].status = 201
              /\ "time" \notin DOMAIN s
              /\ \E row \in report' :
                     /\ resp'[p] = Created(row)
                     /\ report' = report \cup {row}
                     /\ \A r \in report : r.report_id # row.report_id
                     /\ row.room_id = s.room_id /\ row.machine_id = s.machine_id
                     /\ row.reporter_username = s.reporter_username
                     /\ row.report_type = s.report_type
                     /\ row.description = s.description
                     /\ row.archived = FALSE
                     /\ row.time \in Times
              /\ UNCHANGED <<room, machine, user, room_seq>>
      ]_vars

C12_Witness ==
    \E p \in Procs :
        /\ pc[p] = "done" /\ req[p].op = "submit_report" /\ resp[p].status = 201
        /\ req[p].submission.description # None
        /\ \E r, x \in report : /\ resp[p] = Created(r) /\ x.report_id # r.report_id
                               /\ x.description = None

(* C13: a storage failure is answered by kind and path: submit_report answers
   400 when its INSERT fails with a Database error and 500 for every other
   failure; add_room, add_machine and add_user answer 500 for every failure,
   Database errors of the INSERT included.  A statement the server rejected
   stored nothing. *)
C13_StorageErrorsByPath ==
    [][ \A p \in Procs :
          (Completes(p) /\ StorageFailed(resp'[p])
                        /\ req'[p].op \in {"submit_report", "add_room", "add_machine", "add_user"}) =>
              /\ resp'[p].status =
                     IF /\ req'[p].op = "submit_report"
                        /\ pc[p] = "submit_report:execute"
                        /\ resp'[p].msg = DatabaseError
                     THEN 400 ELSE 500
              /\ resp'[p].msg = DatabaseError => UNCHANGED db
      ]_vars

C13_Witness ==
    \E p \in Procs :
        /\ pc[p] = "done" /\ req[p].op = "add_user"
        /\ resp[p] = InternalServerError(DatabaseError)
        /\ \E u \in user : u.username = req[p].submission.username

(* C14: when submit_report reaches its INSERT for a stored machine and no user
   has the submitted reporter_username, the handler answers 400 (500 if the
   connection failed) and adds no report; every report row that is added names
   a reporter stored at that step. *)
C14_SubmitForAbsentReporter ==
    [][ /\ \A p \in Procs :
             (Completes(p) /\ pc[p] = "submit_report:execute"
                           /\ ~\E u \in user :
                                  u.username = req'[p].submission.reporter_username) =>
                 /\ resp'[p].status = IF resp'[p].msg = IoError THEN 500 ELSE 400
                 /\ UNCHANGED <<report, report_seq>>
        /\ \A r \in report' \ report :
             \E u \in user : u.username = r.reporter_username
      ]_vars

C14_Witness ==
    \E p \in Procs :
        /\ pc[p] = "done" /\ req[p].op = "submit_report"
        /\ resp[p] = BadRequest(DatabaseError)
        /\ \E m \in machine : /\ m.room_id = req[p].submission.room_id
                              /\ m.machine_id = req[p].submission.machine_id
        /\ ~\E u \in user : u.username = req[p].submission.reporter_username
        /\ user # {}

(* C15: a delete_room, delete_machine or delete_user that answers 200 removes
   the one row it names from its own table and leaves every other table as it
   was: machines and reports of a deleted room, reports of a deleted machine
   and all reports at a delete_user stay stored. *)
C15_DeletesDoNotCascade ==
    [][ \A p \in Procs :
          (Completes(p) /\ resp'[p].status = 200
                        /\ req'[p].op \in {"delete_room", "delete_machine", "delete_user"}) =>
              /\ RemovesOnly(req'[p], Stored(req'[p]))
              /\ OtherTablesUnchanged(req'[p])
              /\ Cardinality(Stored(req'[p])) = 1
      ]_vars

C15_Witness ==
    \E p \in Procs :
        /\ pc[p] = "done" /\ req[p].op = "delete_room" /\ resp[p].status = 200
        /\ \E m \in machine : m.room_id = req[p].room_id
        /\ \E r \in report : r.room_id = req[p].room_id

(* C16: of the add_user requests for one username, and of the add_machine
   requests for one (room_id, machine_id), however their steps interleave, a
   request answers 201 only if the key was free when it answered, and a
   request that answers while the key is stored (and, for a machine, its room
   is) answers 409 (500 if its connection failed or its existence check was
   rejected). *)
C16_ConcurrentCreatesAnswer201Or409 ==
    [][ \A p \in Procs :
          (Completes(p) /\ req'[p].op \in {"add_user", "add_machine"}
                        /\ resp'[p].msg # IoError
                        /\ ~(Validates(p) /\ StorageFailed(resp'[p]))) =>
              LET s     == req'[p].submission
                  taken == IF req'[p].op = "add_user"
                           THEN \E u \in user : u.username = s.username
                           ELSE \E m \in machine : /\ m.room_id = s.room_id
                                                    /\ m.machine_id = s.machine_id
                  housed == req'[p].op = "add_machine" =>
                                \E r \in room : r.room_id = s.room_id IN
              /\ resp'[p].status = 201 => ~taken
              /\ (taken /\ housed) => resp'[p].status = 409
      ]_vars

(* C17: for a stored machine (R, M), get_machine_reports answers with exactly
   the reports of (R, M) that are not archived and get_machine_archived_reports
   with exactly those that are; for a stored user U, get_user_reports and
   get_user_archived_reports do so for the reports U submitted.  The two
   listings of one parent share no report and together are all its reports. *)
C17_MachineAndUserListingsAreExact ==
    [][ /\ \A p \in Procs :
             (Completes(p) /\ ~StorageFailed(resp'[p])
                  /\ pc[p] \in {"get_machine_reports:execute", "get_machine_archived_reports:execute",
                                "get_user_reports:execute", "get_user_archived_reports:execute"}) =>
                 LET rq        == req'[p]
                     ofMachine == {r \in report : /\ r.room_id = rq.room_id
                                                  /\ r.machine_id = rq.machine_id}
                     ofUser    == {r \in report : r.reporter_username = rq.username} IN
                 /\ resp'[p] =
                      CASE rq.op = "get_machine_reports"          -> OkList(Unarchived(ofMachine))
                        [] rq.op = "get_machine_archived_reports" -> OkList(Archived(ofMachine))
                        [] rq.op = "get_user_reports"             -> OkList(Unarchived(ofUser))
                        [] rq.op = "get_user_archived_reports"    -> OkList(Archived(ofUser))
                 /\ UNCHANGED db
        /\ \A R \in RoomIds, M \in MachineIds :
             LET open   == get_machine_reports_sql(report', R, M)
                 closed == get_machine_archived_reports_sql(report', R, M) IN
             /\ open \cap closed = {}
             /\ open \cup closed = {r \in report' : r.room_id = R /\ r.machine_id = M}
        /\ \A U \in Usernames :
             LET open   == get_user_reports_sql(report', U)
                 closed == get_user_archived_reports_sql(report', U) IN
             /\ open \cap closed = {}
             /\ open \cup closed = {r \in report' : r.reporter_username = U}
      ]_vars

C17_Witness ==
    \E p \in Procs :
        /\ pc[p] = "done" /\ req[p].op = "get_user_archived_reports" /\ resp[p].status = 200
        /\ resp[p].rows # {}
        /\ \E r \in report : r.archived /\ r.reporter_username # req[p].username

(* C18: a listing of a parent that is not stored when the existence check runs
   is answered at that step, without the listing query: 400 by
   get_machine_reports and get_machine_archived_reports, 404 by
   get_room_machines, get_room_reports, get_room_archived_reports,
   get_user_reports and get_user_archived_reports (500 if the check itself
   failed), never 200. *)
C18_ListingOfAbsentParent ==
    [][ \A p \in Procs :
          LET rq == req'[p]
              parentStored ==
                  CASE rq.op \in MachineScoped ->
                         \E m \in machine : /\ m.room_id = rq.room_id
                                            /\ m.machine_id = rq.machine_id
                    [] rq.op \in RoomScoped -> \E r \in room : r.room_id = rq.room_id
                    [] rq.op \in UserScoped -> \E u \in user : u.username = rq.username IN
          (Starts(p) /\ rq.op \in MachineScoped \cup RoomScoped \cup UserScoped
                     /\ ~parentStored) =>
              /\ pc'[p] = "done"
              /\ StorageFailed(resp'[p]) => resp'[p].status = 500
              /\ ~StorageFailed(resp'[p]) =>
                     resp'[p].status = IF rq.op \in MachineScoped THEN 400 ELSE 404
              /\ UNCHANGED db
      ]_vars

C18_Witness ==
    \E p \in Procs :
        /\ pc[p] = "done" /\ req[p].op = "get_machine_reports" /\ resp[p].status = 400
        /\ \E r \in report : r.room_id = req[p].room_id /\ r.machine_id = req[p].machine_id

(* C19: no step of a GET handler and no call of an existence validator changes
   a table or a sequence, whatever the handler answers. *)
C19_ReadsChangeNothing ==
    [][ \A p \in Procs :
          /\ (pc'[p] # pc[p] /\ req'[p].op \in ReadOps) => UNCHANGED db
          /\ Validates(p) => UNCHANGED db
      ]_vars

C19_Witness ==
    \E p \in Procs :
        /\ pc[p] = "done" /\ req[p].op = "get_report" /\ resp[p].status = 200
        /\ resp[p].rows # {} /\ resp[p].rows \subseteq report
        /\ \E r \in report : r \notin resp[p].rows

(* C20: the step in which a storage call of a request fails is the step in
   which the handler answers: 500, or 400 when the failed call is
   submit_report's INSERT and the error a Database error; the tables are as
   they were before the call, and no further storage call is made. *)
C20_NoRetryAfterStorageFailure ==
    [][ \A p \in Procs :
          (failed'[p] /\ ~failed[p]) =>
              /\ pc'[p] = "done"
              /\ resp'[p].msg \in Errors
              /\ resp'[p].status =
                     IF /\ pc[p] = "submit_report:execute"
                        /\ resp'[p].msg = DatabaseError
                     THEN 400 ELSE 500
              /\ UNCHANGED db
      ]_vars

(* C20, amended: the step in which a storage call of a request fails is the
   step in which the handler answers, 500, or 400 for a Database error of
   submit_report's INSERT, and no further storage call is made.  The tables
   are as they were before the call when the call is an existence check or a
   SELECT, when the server rejected the statement and when the statement
   matched no row; an INSERT, UPDATE or DELETE whose connection failed has
   either changed nothing or taken effect as a whole. *)
C20_NoRetryStatementRanOrNot ==
    [][ \A p \in Procs :
          (failed'[p] /\ ~failed[p]) =>
              /\ pc'[p] = "done"
              /\ resp'[p].msg \in Errors
              /\ resp'[p].status =
                     IF /\ pc[p] = "submit_report:execute"
                        /\ resp'[p].msg = DatabaseError
                     THEN 400 ELSE 500
              /\ \/ UNCHANGED db
                 \/ /\ Writes(p)
                    /\ resp'[p].msg = IoError
                    /\ StatementRan(req'[p])
      ]_vars

C20_Witness ==
    \E p \in Procs :
        /\ failed[p] /\ pc[p] = "done" /\ req[p].op = "add_room"
        /\ resp[p] = InternalServerError(IoError)
        /\ room_seq = 1
        /\ room = {add_room_sql(0, req[p].submission)}

(* C21: however the steps of requests on one key interleave, a delete or
   archive request never answers 500 while no connection's answer reports a
   lost connection or a statement rejected by the server: delete_room, delete_machine,
   delete_user and delete_report answer 200 or 404, archive_report answers 200
   or 400, also when the row is deleted between the request's existence check
   and its DELETE / UPDATE ... RETURNING. *)
C21_DeleteAndArchiveNeverAnswer500 ==
    [][ \A p \in Procs :
          (Completes(p) /\ req'[p].op \in DeleteOps \cup {"archive_report"}
                        /\ \A q \in Procs : ~StorageFailed(resp'[q])) =>
              resp'[p].status \in IF req'[p].op = "archive_report"
                                  THEN {200, 400} ELSE {200, 404}
      ]_vars

(* C22: however the steps of submit_report and delete_machine, and of
   add_machine and delete_room, interleave, a row is inserted only while its
   parent is stored: in the step in which submit_report inserts a report the
   machine (room_id, machine_id) of the report is in the machine table, and in
   the step in which add_machine inserts a machine the room room_id is in the
   room table. *)
C22_InsertOnlyWhileParentStored ==
    [][ /\ \A r \in report' :
             (~\E x \in report : x.report_id = r.report_id) =>
                 \E m \in machine : m.room_id = r.room_id /\ m.machine_id = r.machine_id
        /\ \A m \in machine' :
             (~\E x \in machine : x.room_id = m.room_id /\ x.machine_id = m.machine_id) =>
                 \E r \in room : r.room_id = m.room_id
      ]_vars

(* C23: in every reachable state, however the handlers' steps interleave, no
   two rows of the machine table have the same (room_id, machine_id) and no two
   rows of the user table the same username.  A machine id stored in one room
   does not stand in the way of the same id in another room: an add_machine
   INSERT for a key that is free stores its row and answers 201 unless the
   storage call fails, and one for a key that is stored is refused. *)
C23_KeysAreUnique ==
    /\ \A m1, m2 \in machine :
           (m1.room_id = m2.room_id /\ m1.machine_id = m2.machine_id) => m1 = m2
    /\ \A u1, u2 \in user : u1.username = u2.username => u1 = u2
    /\ [][ /\ \A m1, m2 \in machine' :
                  (m1.room_id = m2.room_id /\ m1.machine_id = m2.machine_id) => m1 = m2
           /\ \A u1, u2 \in user' : u1.username = u2.username => u1 = u2
           /\ \A p \in Procs :
                  (pc[p] = "add_machine:execute" /\ Completes(p)) =>
                      LET s     == req[p].submission
                          taken == \E m \in machine : /\ m.room_id = s.room_id
                                                      /\ m.machine_id = s.machine_id IN
                      /\ (~taken /\ resp'[p].msg \notin Errors) =>
                             /\ resp'[p] = Created(add_machine_sql(s))
                             /\ machine' = machine \cup {add_machine_sql(s)}
                      /\ taken => /\ resp'[p].status = 500
                                  /\ machine' = machine
         ]_vars

C23_Witness ==
    \E p, q \in Procs :
        /\ pc[p] = "done" /\ req[p].op = "add_machine" /\ resp[p].status = 201
        /\ pc[q] = "done" /\ req[q].op = "add_machine"
        /\ resp[q] = InternalServerError(DatabaseError)
        /\ req[q].submission.room_id = req[p].submission.room_id
        /\ req[q].submission.machine_id = req[p].submission.machine_id
        /\ req[q].submission.machine_type # req[p].submission.machine_type
        /\ resp[p].rows \subseteq machine
        /\ add_machine_sql(req[q].submission) \notin machine
        /\ \E m \in machine : /\ m.machine_id = req[p].submission.machine_id
                              /\ m.room_id # req[p].submission.room_id

(* C24: every operation of the HTTP surface requested of the application main
   assembles is served by its handler: the POST and DELETE operations of room,
   machine and user, archive_report, get_all_archived_reports and the room-,
   machine- and user-scoped listings included, no request is answered by the
   application's default not-found response, and an archive_report for a
   stored report answers 200. *)
C24_EveryOperationIsRouted ==
    [][ \A p \in Procs :
          (workload.app /\ pc[p] = "idle" /\ pc'[p] # "idle") =>
              /\ req'[p].op \in workload.ops
              /\ resp'[p] # default_service_response
      ]_vars

====
